---- MODULE Spec2Model ----
(***************************************************************************)
(* Model of the generic device interface of EHAL (include/device_intrf.h): *)
(* the DEVINTRF handle with its Busy flag and its enable reference count   *)
(* EnCnt, and the inline functions DeviceIntrfEnable/Disable and           *)
(* DeviceIntrfStartRx/StartTx/StopRx/StopTx that guard them.               *)
(*                                                                         *)
(* Callers (mainline code, interrupt handlers, logical devices sharing the *)
(* handle) interleave at the granularity the code gives them: each atomic  *)
(* primitive of atomic.h is one step, each call of an implementation       *)
(* routine through the function table is one step.  A caller's position    *)
(* inside a function is pc[c].                                             *)
(***************************************************************************)
EXTENDS Integers, Sequences, FiniteSets, TLC

\* ------------------------------------------------------------------ bounds
NumCallers == 2        \* execution contexts / logical devices on one handle
MaxPowerCalls == 4     \* DeviceIntrfEnable + DeviceIntrfDisable calls made
MaxXfer == 2           \* bytes asked of one RxData/TxData call (BuffLen)
MaxResets == 2         \* DeviceIntrfReset calls made
MaxRate == 5           \* largest rate asked of DeviceIntrfSetRate

Callers == 1..NumCallers

VARIABLES
    Busy,        \* __device_intrf.Busy
    EnCnt,       \* __device_intrf.EnCnt
    hwOn,        \* implementation state: TRUE iff the last implementation
                 \* power routine invoked was Enable
    pc,          \* pc[c]: where caller c stands inside a DeviceIntrf function
    holds,       \* holds[c]: the bracket caller c owns ("none", "Rx", "Tx"):
                 \* its Start returned true, its Stop has not completed
    lastCall,    \* lastCall[c]: the last StartRx/StartTx/StopRx/StopTx call
                 \* of caller c: what it saw, what it invoked, what it returned
    using,       \* using[c]: Enable calls of c that returned and that c has
                 \* not yet paired with a Disable call
    surplus,     \* some caller called Disable without an Enable of its own
    hist,        \* the Enable/Disable calls in the order of their atomic op
    nImplEnable, \* invocations of the implementation's Enable routine
    nImplDisable,\* invocations of the implementation's Disable routine
    MaxRetry,    \* __device_intrf.MaxRetry
    hasReset,    \* __device_intrf.Reset is not NULL
    comp,        \* comp[c]: the last composite call (DeviceIntrfRx/Tx/Read/
                 \* Write) of caller c: Busy as the call found it, the
                 \* implementation routines it invoked, in order, how its
                 \* Start ended, and what it returned
    lastData,    \* the last DeviceIntrfRxData/TxData call made on its own
    nResetCalls, \* DeviceIntrfReset calls made
    nImplReset,  \* invocations of the implementation's Reset routine
    resetSawBusy,\* the Busy flag as the last DeviceIntrfReset call found it
    rate,        \* implementation state: the transfer rate in force
    lastSet,     \* the last DeviceIntrfSetRate call: rate asked, rate returned
    lastGetRet,  \* what the last DeviceIntrfGetRate since then returned
                 \* (NoGet: no GetRate since the last SetRate)
    unowned      \* some caller called StopRx/StopTx without owning a bracket

busVars   == <<Busy, pc, holds, lastCall>>
powerVars == <<EnCnt, hwOn, using, surplus, hist, nImplEnable, nImplDisable>>
compVars  == <<comp>>
dataVars  == <<lastData>>
resetVars == <<nResetCalls, nImplReset, resetSawBusy>>
rateVars  == <<rate, lastSet, lastGetRet>>
cfgVars   == <<MaxRetry, hasReset>>
rogueVars == <<unowned>>
vars == <<Busy, EnCnt, hwOn, pc, holds, lastCall, using, surplus, hist,
          nImplEnable, nImplDisable, MaxRetry, hasReset, comp, lastData,
          nResetCalls, nImplReset, resetSawBusy, rate, lastSet, lastGetRet,
          unowned>>

\* ------------------------------------------------- atomic.h primitives
\* AtomicTestAndSet sets the flag and returns the value it had.
AtomicTestAndSet(flag) == [ret |-> flag, val |-> TRUE]

\* AtomicClear resets the flag.
AtomicClear(flag) == FALSE

\* AtomicInc / AtomicDec change the counter by one and return the new value.
AtomicInc(v) == v + 1

AtomicDec(v) == v - 1

\* ------------------------------------------------------------ call records
NoCall == [op |-> "none", n |-> 0, pre |-> FALSE, impl |-> "no", ret |-> "done"]

\* a Start that reports success whatever the implementation returned
RetOf_AlwaysTrue(retval) == "true"

\* the value a bool-returning call hands back to its caller
RetOf(retval) == IF retval THEN "true" ELSE "false"

\* n counts the caller's bus calls, saturating at 2 ("more than one").
NextN(c) == IF lastCall[c].n < 2 THEN lastCall[c].n + 1 ELSE 2

\* values of MaxRetry a driver may configure
RetryValues == {0, 5}

\* the rates the implementation can run at, and the one it starts with
AchievableRates == {2, 4}

DefaultRate == 2

NoComp == [op |-> "none", active |-> FALSE, log |-> <<>>, start |-> "none",
           cnt |-> 0, ret |-> 0, pre |-> FALSE]

NoSet == [req |-> 0, ret |-> 0]

NoGet == [made |-> FALSE, ret |-> 0]

NoData == [op |-> "none", who |-> 0, busy |-> FALSE, implRet |-> 0,
           calls |-> 0, ret |-> 0]

\* the handle as a driver sets it up, its MaxRetry taken from retries and
\* its Reset slot filled or not as resets says
InitWith(retries, resets) ==
    /\ MaxRetry \in retries
    /\ hasReset \in resets
    /\ comp = [c \in Callers |-> NoComp]
    /\ lastData = NoData
    /\ nResetCalls = 0
    /\ nImplReset = 0
    /\ resetSawBusy = FALSE
    /\ rate = DefaultRate
    /\ lastSet = NoSet
    /\ lastGetRet = NoGet
    /\ unowned = FALSE
    /\ Busy = FALSE
    /\ EnCnt = 0
    /\ hwOn = FALSE
    /\ pc = [c \in Callers |-> "idle"]
    /\ holds = [c \in Callers |-> "none"]
    /\ lastCall = [c \in Callers |-> NoCall]
    /\ using = [c \in Callers |-> 0]
    /\ surplus = FALSE
    /\ hist = <<>>
    /\ nImplEnable = 0
    /\ nImplDisable = 0

\* a driver that configures no retry and supplies a Reset routine
Init == InitWith({0}, {TRUE})

\* ------------------------------------------------------ DeviceIntrfStartRx
\* a Start that goes on although the flag was already set
StartRejected_Never(old) == FALSE

\* if (AtomicTestAndSet(&pDev->Busy)) return false;
StartRejected(old) == old

\* a Start that keeps the flag when the implementation failed
StartReleases_Never(retval) == FALSE

\* if (retval == false) AtomicClear(&pDev->Busy);
StartReleases(retval) == retval = FALSE

DeviceIntrfStartRx_TestAndSet(c) ==
    LET tas == AtomicTestAndSet(Busy) IN
    /\ pc[c] = "idle"
    /\ holds[c] = "none"
    /\ Busy' = tas.val
    /\ IF StartRejected(tas.ret)
       THEN /\ pc' = pc
            /\ lastCall' = [lastCall EXCEPT ![c] =
                   [op |-> "StartRx", n |-> NextN(c), pre |-> tas.ret,
                    impl |-> "no", ret |-> "false"]]
       ELSE /\ pc' = [pc EXCEPT ![c] = "StartRxImpl"]
            /\ lastCall' = [lastCall EXCEPT ![c] =
                   [op |-> "StartRx", n |-> NextN(c), pre |-> tas.ret,
                    impl |-> "no", ret |-> "pending"]]
    /\ UNCHANGED <<holds, powerVars>>

\* bool retval = pDev->StartRx(pDev, DevAddr); ... return retval;
DeviceIntrfStartRx_Impl(c) ==
    /\ pc[c] = "StartRxImpl"
    /\ \E retval \in BOOLEAN :
         /\ lastCall' = [lastCall EXCEPT
                ![c].impl = IF retval THEN "ok" ELSE "fail",
                ![c].ret = IF StartReleases(retval) THEN "pending"
                           ELSE RetOf(retval)]
         /\ IF StartReleases(retval)
            THEN /\ pc' = [pc EXCEPT ![c] = "StartRxClear"]
                 /\ holds' = holds
            ELSE /\ pc' = [pc EXCEPT ![c] = "idle"]
                 /\ holds' = [holds EXCEPT ![c] = IF retval THEN "Rx" ELSE "none"]
    /\ UNCHANGED <<Busy, powerVars>>


\* AtomicClear(&pDev->Busy); ... return retval;
DeviceIntrfStartRx_Clear(c) ==
    LET retval == lastCall[c].impl = "ok" IN
    /\ pc[c] = "StartRxClear"
    /\ Busy' = AtomicClear(Busy)
    /\ pc' = [pc EXCEPT ![c] = "idle"]
    /\ lastCall' = [lastCall EXCEPT ![c].ret = RetOf(retval)]
    /\ holds' = [holds EXCEPT ![c] = IF retval THEN "Rx" ELSE "none"]
    /\ UNCHANGED powerVars

\* ------------------------------------------------------ DeviceIntrfStartTx
\* a StartTx that sets the flag without testing it
DeviceIntrfStartTx_NoTest(c) ==
    LET tas == AtomicTestAndSet(Busy) IN
    /\ pc[c] = "idle"
    /\ holds[c] = "none"
    /\ Busy' = tas.val
    /\ pc' = [pc EXCEPT ![c] = "StartTxImpl"]
    /\ lastCall' = [lastCall EXCEPT ![c] =
           [op |-> "StartTx", n |-> NextN(c), pre |-> tas.ret,
            impl |-> "no", ret |-> "pending"]]
    /\ UNCHANGED <<holds, powerVars>>

DeviceIntrfStartTx_TestAndSet(c) ==
    LET tas == AtomicTestAndSet(Busy) IN
    /\ pc[c] = "idle"
    /\ holds[c] = "none"
    /\ Busy' = tas.val
    /\ IF StartRejected(tas.ret)
       THEN /\ pc' = pc
            /\ lastCall' = [lastCall EXCEPT ![c] =
                   [op |-> "StartTx", n |-> NextN(c), pre |-> tas.ret,
                    impl |-> "no", ret |-> "false"]]
       ELSE /\ pc' = [pc EXCEPT ![c] = "StartTxImpl"]
            /\ lastCall' = [lastCall EXCEPT ![c] =
                   [op |-> "StartTx", n |-> NextN(c), pre |-> tas.ret,
                    impl |-> "no", ret |-> "pending"]]
    /\ UNCHANGED <<holds, powerVars>>

DeviceIntrfStartTx_Impl(c) ==
    /\ pc[c] = "StartTxImpl"
    /\ \E retval \in BOOLEAN :
         /\ lastCall' = [lastCall EXCEPT
                ![c].impl = IF retval THEN "ok" ELSE "fail",
                ![c].ret = IF StartReleases(retval) THEN "pending"
                           ELSE RetOf(retval)]
         /\ IF StartReleases(retval)
            THEN /\ pc' = [pc EXCEPT ![c] = "StartTxClear"]
                 /\ holds' = holds
            ELSE /\ pc' = [pc EXCEPT ![c] = "idle"]
                 /\ holds' = [holds EXCEPT ![c] = IF retval THEN "Tx" ELSE "none"]
    /\ UNCHANGED <<Busy, powerVars>>


DeviceIntrfStartTx_Clear(c) ==
    LET retval == lastCall[c].impl = "ok" IN
    /\ pc[c] = "StartTxClear"
    /\ Busy' = AtomicClear(Busy)
    /\ pc' = [pc EXCEPT ![c] = "idle"]
    /\ lastCall' = [lastCall EXCEPT ![c].ret = RetOf(retval)]
    /\ holds' = [holds EXCEPT ![c] = IF retval THEN "Tx" ELSE "none"]
    /\ UNCHANGED powerVars

\* ------------------------------------------- DeviceIntrfStopRx / StopTx
\* A caller calls Stop only for the bracket its own Start opened.
\* pDev->StopRx(pDev);
DeviceIntrfStopRx_Impl(c) ==
    /\ pc[c] = "idle"
    /\ holds[c] = "Rx"
    /\ pc' = [pc EXCEPT ![c] = "StopRxClear"]
    /\ lastCall' = [lastCall EXCEPT ![c] =
           [op |-> "StopRx", n |-> NextN(c), pre |-> Busy,
            impl |-> "ok", ret |-> "pending"]]
    /\ UNCHANGED <<Busy, holds, powerVars>>

\* a StopRx that returns without clearing the flag
DeviceIntrfStopRx_NoClear(c) ==
    /\ pc[c] = "StopRxClear"
    /\ Busy' = Busy
    /\ pc' = [pc EXCEPT ![c] = "idle"]
    /\ holds' = [holds EXCEPT ![c] = "none"]
    /\ lastCall' = [lastCall EXCEPT ![c].ret = "done"]
    /\ UNCHANGED powerVars

\* AtomicClear(&pDev->Busy);
DeviceIntrfStopRx_Clear(c) ==
    /\ pc[c] = "StopRxClear"
    /\ Busy' = AtomicClear(Busy)
    /\ pc' = [pc EXCEPT ![c] = "idle"]
    /\ holds' = [holds EXCEPT ![c] = "none"]
    /\ lastCall' = [lastCall EXCEPT ![c].ret = "done"]
    /\ UNCHANGED powerVars

\* a StopTx that clears the flag before the implementation's stop routine
DeviceIntrfStopTx_ClearFirst(c) ==
    /\ pc[c] = "idle"
    /\ holds[c] = "Tx"
    /\ Busy' = AtomicClear(Busy)
    /\ pc' = [pc EXCEPT ![c] = "StopTxClear"]
    /\ lastCall' = [lastCall EXCEPT ![c] =
           [op |-> "StopTx", n |-> NextN(c), pre |-> Busy,
            impl |-> "ok", ret |-> "pending"]]
    /\ UNCHANGED <<holds, powerVars>>

\* pDev->StopTx(pDev);
DeviceIntrfStopTx_Impl(c) ==
    /\ pc[c] = "idle"
    /\ holds[c] = "Tx"
    /\ pc' = [pc EXCEPT ![c] = "StopTxClear"]
    /\ lastCall' = [lastCall EXCEPT ![c] =
           [op |-> "StopTx", n |-> NextN(c), pre |-> Busy,
            impl |-> "ok", ret |-> "pending"]]
    /\ UNCHANGED <<Busy, holds, powerVars>>

DeviceIntrfStopTx_Clear(c) ==
    /\ pc[c] = "StopTxClear"
    /\ Busy' = AtomicClear(Busy)
    /\ pc' = [pc EXCEPT ![c] = "idle"]
    /\ holds' = [holds EXCEPT ![c] = "none"]
    /\ lastCall' = [lastCall EXCEPT ![c].ret = "done"]
    /\ UNCHANGED powerVars

\* ------------------------------------- DeviceIntrfEnable / DeviceIntrfDisable
\* an Enable that powers up on every call
EnableFires_Always(cnt) == cnt >= 1

\* if (AtomicInc(&pDev->EnCnt) == 1)
EnableFires(cnt) == cnt = 1

\* a Disable that powers down only when the count reaches exactly 0
DisableFires_AtZero(cnt) == cnt = 0

\* if (AtomicDec(&pDev->EnCnt) < 1)
DisableFires(cnt) == cnt < 1

DeviceIntrfEnable_Inc(c) ==
    LET cnt == AtomicInc(EnCnt) IN
    /\ pc[c] = "idle"
    /\ Len(hist) < MaxPowerCalls
    /\ EnCnt' = cnt
    /\ hist' = Append(hist, "Enable")
    /\ IF EnableFires(cnt)
       THEN /\ pc' = [pc EXCEPT ![c] = "EnableImpl"]
            /\ using' = using
       ELSE /\ pc' = pc
            /\ using' = [using EXCEPT ![c] = @ + 1]
    /\ UNCHANGED <<Busy, holds, lastCall, hwOn, surplus, nImplEnable, nImplDisable>>

\* pDev->Enable(pDev);
DeviceIntrfEnable_Impl(c) ==
    /\ pc[c] = "EnableImpl"
    /\ hwOn' = TRUE
    /\ nImplEnable' = nImplEnable + 1
    /\ pc' = [pc EXCEPT ![c] = "idle"]
    /\ using' = [using EXCEPT ![c] = @ + 1]
    /\ UNCHANGED <<Busy, holds, lastCall, EnCnt, surplus, hist, nImplDisable>>

DeviceIntrfDisable_Dec(c) ==
    LET cnt == AtomicDec(EnCnt) IN
    /\ pc[c] = "idle"
    /\ Len(hist) < MaxPowerCalls
    /\ EnCnt' = cnt
    /\ hist' = Append(hist, "Disable")
    /\ IF using[c] > 0
       THEN /\ using' = [using EXCEPT ![c] = @ - 1]
            /\ surplus' = surplus
       ELSE /\ using' = using
            /\ surplus' = TRUE
    /\ pc' = IF DisableFires(cnt) THEN [pc EXCEPT ![c] = "DisableImpl"] ELSE pc
    /\ UNCHANGED <<Busy, holds, lastCall, hwOn, nImplEnable, nImplDisable>>

\* a power-down that also gives up the transaction in progress
DeviceIntrfDisable_ImplReleases(c) ==
    /\ pc[c] = "DisableImpl"
    /\ hwOn' = FALSE
    /\ nImplDisable' = nImplDisable + 1
    /\ pc' = [pc EXCEPT ![c] = "idle"]
    /\ Busy' = AtomicClear(Busy)
    /\ UNCHANGED <<holds, lastCall, EnCnt, using, surplus, hist, nImplEnable>>

\* pDev->Disable(pDev);
DeviceIntrfDisable_Impl(c) ==
    /\ pc[c] = "DisableImpl"
    /\ hwOn' = FALSE
    /\ nImplDisable' = nImplDisable + 1
    /\ pc' = [pc EXCEPT ![c] = "idle"]
    /\ UNCHANGED <<Busy, holds, lastCall, EnCnt, using, surplus, hist, nImplEnable>>

\* ---------------------------------------------------------- specifications
\* caller c is not inside a composite call
Standalone(c) == ~comp[c].active

BusNext ==
    /\ UNCHANGED <<rogueVars, cfgVars, compVars, dataVars, resetVars, rateVars>>
    /\ \E c \in Callers :
        /\ Standalone(c)
        /\ \/ DeviceIntrfStartRx_TestAndSet(c)
           \/ DeviceIntrfStartRx_Impl(c)
           \/ DeviceIntrfStartRx_Clear(c)
           \/ DeviceIntrfStartTx_TestAndSet(c)
           \/ DeviceIntrfStartTx_Impl(c)
           \/ DeviceIntrfStartTx_Clear(c)
           \/ DeviceIntrfStopRx_Impl(c)
           \/ DeviceIntrfStopRx_Clear(c)
           \/ DeviceIntrfStopTx_Impl(c)
           \/ DeviceIntrfStopTx_Clear(c)

PowerNext ==
    /\ UNCHANGED <<rogueVars, cfgVars, compVars, dataVars, resetVars, rateVars>>
    /\ \E c \in Callers :
        /\ Standalone(c)
        /\ \/ DeviceIntrfEnable_Inc(c)
           \/ DeviceIntrfEnable_Impl(c)
           \/ DeviceIntrfDisable_Dec(c)
           \/ DeviceIntrfDisable_Impl(c)

\* ------------------------------------------- both gates on one handle
\* One context looks after the power of the device; every context runs
\* transactions.
PowerManager == CHOOSE c \in Callers : \A d \in Callers : c <= d

GateNext ==
    /\ UNCHANGED <<rogueVars, cfgVars, compVars, dataVars, resetVars, rateVars>>
    /\ \E c \in Callers :
        /\ Standalone(c)
        /\ \/ c = PowerManager /\ DeviceIntrfEnable_Inc(c)
           \/ c = PowerManager /\ DeviceIntrfEnable_Impl(c)
           \/ c = PowerManager /\ DeviceIntrfDisable_Dec(c)
           \/ c = PowerManager /\ DeviceIntrfDisable_Impl(c)
           \/ DeviceIntrfStartRx_TestAndSet(c)
           \/ DeviceIntrfStartRx_Impl(c)
           \/ DeviceIntrfStartRx_Clear(c)
           \/ DeviceIntrfStartTx_TestAndSet(c)
           \/ DeviceIntrfStartTx_Impl(c)
           \/ DeviceIntrfStartTx_Clear(c)
           \/ DeviceIntrfStopRx_Impl(c)
           \/ DeviceIntrfStopRx_Clear(c)
           \/ DeviceIntrfStopTx_Impl(c)
           \/ DeviceIntrfStopTx_Clear(c)

\* ------------------------ DeviceIntrfStopRx / StopTx by a non-owner
\* The same two functions, called by a caller that owns no bracket: its Start
\* returned false, or it never called Start. The functions take no notice.
\* pDev->StopRx(pDev);
DeviceIntrfStopRx_Unowned(c) ==
    /\ pc[c] = "idle"
    /\ holds[c] = "none"
    /\ pc' = [pc EXCEPT ![c] = "StopRxClear"]
    /\ lastCall' = [lastCall EXCEPT ![c] =
           [op |-> "StopRx", n |-> NextN(c), pre |-> Busy,
            impl |-> "ok", ret |-> "pending"]]
    /\ unowned' = TRUE
    /\ UNCHANGED <<Busy, holds, powerVars>>

\* pDev->StopTx(pDev);
DeviceIntrfStopTx_Unowned(c) ==
    /\ pc[c] = "idle"
    /\ holds[c] = "none"
    /\ pc' = [pc EXCEPT ![c] = "StopTxClear"]
    /\ lastCall' = [lastCall EXCEPT ![c] =
           [op |-> "StopTx", n |-> NextN(c), pre |-> Busy,
            impl |-> "ok", ret |-> "pending"]]
    /\ unowned' = TRUE
    /\ UNCHANGED <<Busy, holds, powerVars>>

RogueNext ==
    /\ UNCHANGED <<cfgVars, compVars, dataVars, resetVars, rateVars>>
    /\ \E c \in Callers :
        /\ Standalone(c)
        /\ \/ DeviceIntrfStopRx_Unowned(c)
           \/ DeviceIntrfStopTx_Unowned(c)

\* ------------------------ DeviceIntrfRx / DeviceIntrfTx / DeviceIntrfWrite
\* The composites sequence Start, the data phase(s) and Stop on behalf of
\* their caller; between two phases the caller stands at pc "idle" with
\* comp[c].active set.
CompOps == {"Rx", "Tx", "Read", "Write"}

\* Rx and Read work inside a StartRx..StopRx bracket, Tx and Write inside a
\* StartTx..StopTx bracket
StartOpOf(op) == IF op \in {"Rx", "Read"} THEN "StartRx" ELSE "StartTx"

StopOpOf(op) == IF op \in {"Rx", "Read"} THEN "StopRx" ELSE "StopTx"

\* the transfer phases of a composite, in order: Read and Write send the
\* address or command first and transfer the data second
DataPhases(op) ==
    IF op = "Rx" THEN <<"RxData">>
    ELSE IF op = "Tx" THEN <<"TxData">>
    ELSE IF op = "Read" THEN <<"TxAdCmd", "RxData">>
    ELSE <<"TxAdCmd", "TxData">>

\* how the Start phase of caller c's composite went, from what Start did
StartOutcome(c) ==
    IF lastCall[c].pre THEN "rejected"
    ELSE IF lastCall[c].impl = "fail" THEN "implfail"
    ELSE "ok"

\* the composite is entered: DeviceIntrfStartRx / DeviceIntrfStartTx is called
Composite_Start(c, op) ==
    /\ ~comp[c].active
    /\ IF StartOpOf(op) = "StartRx" THEN DeviceIntrfStartRx_TestAndSet(c)
                                    ELSE DeviceIntrfStartTx_TestAndSet(c)
    /\ comp' = [comp EXCEPT ![c] =
           [op |-> op, active |-> TRUE, log |-> <<>>, start |-> "pending",
            cnt |-> 0, ret |-> 0, pre |-> Busy]]

DeviceIntrfRx(c) == Composite_Start(c, "Rx")

DeviceIntrfTx(c) == Composite_Start(c, "Tx")

DeviceIntrfRead(c) == Composite_Start(c, "Read")

DeviceIntrfWrite(c) == Composite_Start(c, "Write")

\* inside Start: the implementation's start routine
Composite_StartImpl(c) ==
    /\ comp[c].active
    /\ IF StartOpOf(comp[c].op) = "StartRx" THEN DeviceIntrfStartRx_Impl(c)
                                            ELSE DeviceIntrfStartTx_Impl(c)
    /\ comp' = [comp EXCEPT ![c].log = Append(@, StartOpOf(comp[c].op))]

\* inside Start: the release after a failed implementation start
Composite_StartClear(c) ==
    /\ comp[c].active
    /\ IF StartOpOf(comp[c].op) = "StartRx" THEN DeviceIntrfStartRx_Clear(c)
                                            ELSE DeviceIntrfStartTx_Clear(c)
    /\ comp' = comp

\* Start returned false: the composite returns 0
Composite_Fail(c) ==
    /\ comp[c].active
    /\ pc[c] = "idle"
    /\ lastCall[c].op \in {"StartRx", "StartTx"}
    /\ lastCall[c].ret = "false"
    /\ comp' = [comp EXCEPT ![c].active = FALSE,
                            ![c].start = StartOutcome(c),
                            ![c].ret = 0]
    /\ UNCHANGED <<busVars, powerVars>>

\* Start returned true: the next transfer phase, pDev->RxData / pDev->TxData
Composite_Data(c) ==
    LET phases == DataPhases(comp[c].op)
        k == Len(comp[c].log) - 1
    IN  /\ comp[c].active
        /\ pc[c] = "idle"
        /\ lastCall[c].op \in {"StartRx", "StartTx"}
        /\ lastCall[c].ret = "true"
        /\ k < Len(phases)
        /\ \E n \in 0..MaxXfer :
             comp' = [comp EXCEPT
                 ![c].log = Append(@, phases[k + 1]),
                 ![c].start = StartOutcome(c),
                 ![c].cnt = IF k + 1 = Len(phases) THEN n ELSE @]
        /\ UNCHANGED <<busVars, powerVars>>

\* after the last transfer phase: DeviceIntrfStopRx / DeviceIntrfStopTx
Composite_StopImpl(c) ==
    /\ comp[c].active
    /\ lastCall[c].op \in {"StartRx", "StartTx"}
    /\ lastCall[c].ret = "true"
    /\ Len(comp[c].log) - 1 = Len(DataPhases(comp[c].op))
    /\ IF StartOpOf(comp[c].op) = "StartRx" THEN DeviceIntrfStopRx_Impl(c)
                                            ELSE DeviceIntrfStopTx_Impl(c)
    /\ comp' = [comp EXCEPT ![c].log = Append(@, StopOpOf(comp[c].op))]

\* Stop clears the flag and the composite returns the data phase's count
Composite_StopClear(c) ==
    /\ comp[c].active
    /\ IF StartOpOf(comp[c].op) = "StartRx" THEN DeviceIntrfStopRx_Clear(c)
                                            ELSE DeviceIntrfStopTx_Clear(c)
    /\ comp' = [comp EXCEPT ![c].active = FALSE, ![c].ret = comp[c].cnt]

CompNext ==
    /\ UNCHANGED <<rogueVars, cfgVars, dataVars, resetVars, rateVars>>
    /\ \E c \in Callers :
        \/ DeviceIntrfRx(c)
        \/ DeviceIntrfTx(c)
        \/ DeviceIntrfWrite(c)
        \/ Composite_StartImpl(c)
        \/ Composite_StartClear(c)
        \/ Composite_Fail(c)
        \/ Composite_Data(c)
        \/ Composite_StopImpl(c)
        \/ Composite_StopClear(c)

\* DeviceIntrfRead is entered; its phases are steps of CompNext
ReadNext ==
    /\ UNCHANGED <<rogueVars, cfgVars, dataVars, resetVars, rateVars>>
    /\ \E c \in Callers : DeviceIntrfRead(c)

\* --------------------------------- DeviceIntrfRxData / DeviceIntrfTxData
\* a data call that asks the implementation again after an empty transfer
DataDelegations_Retry(n, retry) == IF n = 0 /\ retry > 0 THEN 2 ELSE 1

\* return pDev->RxData(pDev, pBuff, BuffLen);   one call of the routine
DataDelegations(n, retry) == 1

\* ... and its count handed back as it is
DataResult(n) == n

DeviceIntrfRxData(c) ==
    /\ pc[c] = "idle"
    /\ \E n \in 0..MaxXfer :
         lastData' = [op |-> "RxData", who |-> c, busy |-> Busy,
                      implRet |-> n, calls |-> DataDelegations(n, MaxRetry),
                      ret |-> DataResult(n)]
    /\ UNCHANGED <<busVars, powerVars, rogueVars, cfgVars, compVars, resetVars, rateVars>>

DeviceIntrfTxData(c) ==
    /\ pc[c] = "idle"
    /\ \E n \in 0..MaxXfer :
         lastData' = [op |-> "TxData", who |-> c, busy |-> Busy,
                      implRet |-> n, calls |-> DataDelegations(n, MaxRetry),
                      ret |-> DataResult(n)]
    /\ UNCHANGED <<busVars, powerVars, rogueVars, cfgVars, compVars, resetVars, rateVars>>

DataNext ==
    \E c \in Callers :
        /\ Standalone(c)
        /\ \/ DeviceIntrfRxData(c)
           \/ DeviceIntrfTxData(c)

\* -------------------------------------------------------- DeviceIntrfReset
\* a Reset that calls through the slot without looking at it
ResetInvokes_Always(slot) == TRUE

\* if (pDev->Reset) pDev->Reset(pDev);
ResetInvokes(slot) == slot

DeviceIntrfReset(c) ==
    /\ pc[c] = "idle"
    /\ nResetCalls < MaxResets
    /\ nResetCalls' = nResetCalls + 1
    /\ nImplReset' = IF ResetInvokes(hasReset) THEN nImplReset + 1
                     ELSE nImplReset
    /\ resetSawBusy' = Busy
    /\ UNCHANGED <<busVars, powerVars, rogueVars, cfgVars, compVars, dataVars, rateVars>>

ResetNext == \E c \in Callers : Standalone(c) /\ DeviceIntrfReset(c)

\* ------------------------------------ DeviceIntrfSetRate / DeviceIntrfGetRate
Dist(a, b) == IF a > b THEN a - b ELSE b - a

\* the implementation's SetRate: the achievable rate closest to the one
\* asked for (the lower one of two equally close) is put in force and returned
ImplSetRate(req) ==
    CHOOSE r \in AchievableRates :
        \A q \in AchievableRates :
            \/ Dist(r, req) < Dist(q, req)
            \/ (Dist(r, req) = Dist(q, req) /\ r <= q)

\* the implementation's GetRate: the rate in force
ImplGetRate == rate

\* a SetRate that hands back the rate it was asked for
SetRateResult_Requested(implRet, Rate) == Rate

\* return pDev->SetRate(pDev, Rate);
SetRateResult(implRet, Rate) == implRet

\* return pDev->GetRate(pDev);
GetRateResult(implRet) == implRet

DeviceIntrfSetRate(c, Rate) ==
    LET r == ImplSetRate(Rate) IN
    /\ pc[c] = "idle"
    /\ rate' = r
    /\ lastSet' = [req |-> Rate, ret |-> SetRateResult(r, Rate)]
    /\ lastGetRet' = NoGet
    /\ UNCHANGED <<busVars, powerVars, rogueVars, cfgVars, compVars, dataVars, resetVars>>

DeviceIntrfGetRate(c) ==
    /\ pc[c] = "idle"
    /\ lastGetRet' = [made |-> TRUE, ret |-> GetRateResult(ImplGetRate)]
    /\ UNCHANGED <<rate, lastSet>>
    /\ UNCHANGED <<busVars, powerVars, rogueVars, cfgVars, compVars, dataVars, resetVars>>

RateNext ==
    \E c \in Callers :
        /\ Standalone(c)
        /\ \/ \E Rate \in 1..MaxRate : DeviceIntrfSetRate(c, Rate)
           \/ DeviceIntrfGetRate(c)

Next == BusNext \/ PowerNext

\* both gates of the handle, every caller free to use either
Spec == Init /\ [][Next]_vars

\* the transaction gate alone (Busy): Start/Stop brackets
SpecBus == Init /\ [][BusNext]_vars

\* the power gate alone (EnCnt): Enable/Disable
SpecPower == Init /\ [][PowerNext]_vars

\* the composites DeviceIntrfRx/Tx/Write, contending with one another
SpecComp == Init /\ [][CompNext]_vars

\* the power gate and the transaction gate together
SpecGates == Init /\ [][GateNext]_vars

\* the transaction gate with callers that also call Stop out of turn
SpecRogue == Init /\ [][BusNext \/ RogueNext]_vars

\* all four composites, DeviceIntrfRead included
SpecCompAll == Init /\ [][CompNext \/ ReadNext]_vars

\* brackets and data calls made on their own, MaxRetry as the driver set it
SpecData == InitWith(RetryValues, {TRUE}) /\ [][BusNext \/ DataNext]_vars

\* brackets and resets, the handle's Reset slot filled or NULL
SpecReset == InitWith({0}, BOOLEAN) /\ [][BusNext \/ ResetNext]_vars

\* brackets and rate negotiation
SpecRate == Init /\ [][BusNext \/ RateNext]_vars

\* A caller that is inside StartRx/StartTx keeps executing: the test-and-set
\* is behind it, and the implementation's start routine returns.
BusFairness ==
    \A c \in Callers :
        WF_vars(/\ UNCHANGED <<rogueVars, cfgVars, compVars, dataVars, resetVars, rateVars>>
                /\ \/ DeviceIntrfStartRx_Impl(c)
                   \/ DeviceIntrfStartRx_Clear(c)
                   \/ DeviceIntrfStartTx_Impl(c)
                   \/ DeviceIntrfStartTx_Clear(c))

\* the transaction gate, every Start call running to its return
SpecBusFair == SpecBus /\ BusFairness

\* A caller whose Start returned true calls the matching Stop (the usage the
\* header prescribes: StartRx, RxData, StopRx), and a Stop that has been
\* entered runs to its return.
StopFairness ==
    \A c \in Callers :
        WF_vars(/\ UNCHANGED <<rogueVars, cfgVars, compVars, dataVars, resetVars, rateVars>>
                /\ \/ DeviceIntrfStopRx_Impl(c)
                   \/ DeviceIntrfStopRx_Clear(c)
                   \/ DeviceIntrfStopTx_Impl(c)
                   \/ DeviceIntrfStopTx_Clear(c))

\* the transaction gate, every Start and Stop running to its return and
\* every open bracket closed by its owner
SpecBusLive == SpecBus /\ BusFairness /\ StopFairness

\* =================================================================== claims
StartOps == {"StartRx", "StartTx"}

StartPcs == {"StartRxImpl", "StartRxClear", "StartTxImpl", "StartTxClear"}

\* the callers whose Start..Stop bracket is open
OpenBrackets == {c \in Callers : holds[c] # "none"}

\* a Start that won the test-and-set and has not returned yet
StartInProgress == \E c \in Callers : pc[c] \in StartPcs

\* caller c's Start was turned away because the flag was set
Rejected(c) ==
    /\ lastCall[c].op \in StartOps
    /\ lastCall[c].pre = TRUE
    /\ lastCall[c].ret = "false"

\* caller c's Start got the flag, the implementation failed, false came back
ImplFailed(c) ==
    /\ lastCall[c].op \in StartOps
    /\ lastCall[c].impl = "fail"
    /\ lastCall[c].ret = "false"

\* the step in which caller c enters StartRx / StartTx (its test-and-set)
StartCalled(c) ==
    /\ pc[c] = "idle"
    /\ lastCall'[c] # lastCall[c]
    /\ lastCall'[c].op \in StartOps
    /\ lastCall'[c].impl = "no"

\* no Enable or Disable call is between its atomic op and its routine
Quiescent == \A c \in Callers : pc[c] \notin {"EnableImpl", "DisableImpl"}

\* ---- C1: at most one Start..Stop bracket is open on the handle in every
\* reachable state, whatever the interleaving of the callers' Start and Stop
\* calls (Stop called only by the caller whose Start returned true).
C1_MutualExclusion == Cardinality(OpenBrackets) <= 1

\* an Rx bracket is open and another caller's Start was turned away
C1_Witness ==
    \E c, d \in Callers :
        /\ c # d
        /\ holds[c] = "Rx"
        /\ Rejected(d)

\* ---- C2: N concurrent StartRx calls on an idle handle, no StopRx in between.
\* The callers that have called: each made exactly one bus call, a StartRx,
\* and it has returned; nobody else has called anything.
Started == {c \in Callers : lastCall[c].n >= 1}

RoundDone ==
    /\ Started # {}
    /\ \A c \in Started :
          /\ lastCall[c].n = 1
          /\ lastCall[c].op = "StartRx"
          /\ lastCall[c].ret \in {"true", "false"}

Winners == {c \in Started : lastCall[c].ret = "true"}

\* C2 as claimed: exactly one of the N calls returns true.
C2_Original == RoundDone => Cardinality(Winners) = 1

\* C2 as amended: at most one of the N calls returns true, and exactly one
\* does unless the implementation's StartRx routine failed for a call that
\* had acquired the flag (then all N calls may return false).
C2_Amended ==
    RoundDone =>
        /\ Cardinality(Winners) <= 1
        /\ (\A c \in Started : ~ImplFailed(c)) => Cardinality(Winners) = 1

\* every caller has called StartRx once: one won, the others were rejected
C2_Witness ==
    /\ RoundDone
    /\ Started = Callers
    /\ Cardinality(Winners) = 1
    /\ \A c \in Callers \ Winners : Rejected(c)

\* ---- C3: in the step in which a StartRx/StartTx call returns false (turned
\* away, or released after the implementation failed), Busy has the value it
\* had immediately before the call (the value the test-and-set saw).
C3_FailedStartKeepsBusy ==
    [][\A c \in Callers :
          (/\ lastCall'[c] # lastCall[c]
           /\ lastCall'[c].op \in StartOps
           /\ lastCall'[c].ret = "false")
          => Busy' = lastCall'[c].pre]_vars

\* one Start failed inside the implementation and left Busy clear while
\* another caller's Start had been turned away
C3_Witness ==
    \E c, d \in Callers :
        /\ c # d
        /\ ImplFailed(c)
        /\ Rejected(d)
        /\ ~Busy
        /\ ~StartInProgress

\* ---- C4: when the caller whose StartRx returned true completes StopRx, Busy
\* is false; and a StartRx made while Busy is false is not turned away: it
\* acquires the flag and goes on to the implementation.
C4_StopThenStart ==
    [][/\ \A c \in Callers :
            (pc[c] = "StopRxClear" /\ pc'[c] = "idle") => ~Busy'
       /\ \A c \in Callers :
            (~Busy /\ StartCalled(c) /\ lastCall'[c].op = "StartRx")
            => (lastCall'[c].pre = FALSE /\ pc'[c] = "StartRxImpl")]_vars

\* one caller's StopRx has completed and a StartRx after it has succeeded
C4_Witness ==
    \E c, d \in Callers :
        /\ c # d
        /\ lastCall[c].op = "StopRx"
        /\ lastCall[c].ret = "done"
        /\ holds[d] = "Rx"
        /\ lastCall[d].op = "StartRx"
        /\ lastCall[d].ret = "true"

\* ---- C5: from count 0, k Enable calls followed by j <= k Disable calls, all
\* completed: the implementation's Enable routine has been invoked exactly
\* once (from the first call on), its Disable routine not at all while j < k
\* and exactly once when j = k, and the count is k - j (0 at the end).
IsEkDj(h, k, j) ==
    /\ Len(h) = k + j
    /\ \A i \in 1..k : h[i] = "Enable"
    /\ \A i \in (k + 1)..(k + j) : h[i] = "Disable"

C5_EnableDisableOnce ==
    \A k \in 1..MaxPowerCalls : \A j \in 0..k :
        (Quiescent /\ IsEkDj(hist, k, j))
        => /\ nImplEnable = 1
           /\ nImplDisable = (IF j = k THEN 1 ELSE 0)
           /\ EnCnt = k - j

\* Enable, Enable, Disable, Disable: one power-up, one power-down, count 0
C5_Witness ==
    /\ Quiescent
    /\ IsEkDj(hist, 2, 2)
    /\ nImplEnable = 1
    /\ nImplDisable = 1
    /\ EnCnt = 0
    /\ ~hwOn

\* ---- C6: the enable count is >= 0 and the hardware is powered iff the count
\* is > 0.  Stated in its weakest reading: only in states where no Enable or
\* Disable call is in progress, and only while every caller has paired its
\* Disable calls with Enable calls of its own.
C6_Claim ==
    (Quiescent /\ ~surplus) => (EnCnt >= 0 /\ (hwOn <=> EnCnt > 0))

\* ---- C7: Busy is true iff a Start..Stop bracket is open (some Start has
\* returned true and the matching Stop has not completed).
C7_Original == Busy <=> OpenBrackets # {}

\* C7 as amended: Busy is true iff a bracket is open or a Start call that
\* acquired the flag has not yet returned.
C7_Amended == Busy <=> (OpenBrackets # {} \/ StartInProgress)

\* a Tx bracket is open, Busy is set, no Start is in progress
C7_Witness ==
    /\ Busy
    /\ \E c \in Callers : holds[c] = "Tx"
    /\ ~StartInProgress

\* ---- C8: two devices sharing the handle, each calling Enable before it uses
\* the bus and Disable after: the hardware is never off while a device is
\* between the return of its Enable and the call of its Disable.
C8_Claim == ~surplus => \A c \in Callers : using[c] > 0 => hwOn

\* ---- C9: a StartRx/StartTx called while Busy is set returns false at once:
\* the implementation's start routine is not invoked and nothing of the call
\* stays pending.
C9_BusyStartRejected ==
    \A c \in Callers :
        (lastCall[c].op \in StartOps /\ lastCall[c].pre = TRUE)
        => /\ lastCall[c].ret = "false"
           /\ lastCall[c].impl = "no"
           /\ pc[c] \notin StartPcs

\* a StartTx was turned away while another caller was inside its StartRx
C9_Witness ==
    \E c, d \in Callers :
        /\ c # d
        /\ Rejected(c)
        /\ lastCall[c].op = "StartTx"
        /\ pc[d] = "StartRxImpl"

\* ---- C10: a Start that acquired the flag and whose implementation routine
\* returned false has cleared Busy when it returns false; afterwards, with
\* no bracket open, a Start is not turned away, and a Start whose
\* implementation routine succeeds returns true and owns the bracket.
C10_FailedStartReleases ==
    /\ [](\A c \in Callers :
            /\ (ImplFailed(c) /\ OpenBrackets = {} /\ ~StartInProgress) => ~Busy
            /\ (lastCall[c].op \in StartOps /\ lastCall[c].impl = "ok")
               => (lastCall[c].ret = "true" /\ holds[c] # "none"))
    /\ [][\A c \in Callers :
            (OpenBrackets = {} /\ ~StartInProgress /\ StartCalled(c))
            => lastCall'[c].pre = FALSE]_vars

\* a Start failed inside the implementation, and a later StartTx got the
\* bracket
C10_Witness ==
    \E c, d \in Callers :
        /\ c # d
        /\ ImplFailed(c)
        /\ holds[d] = "Tx"
        /\ lastCall[d].pre = FALSE
        /\ lastCall[d].ret = "true"

StopPcs == {"StopRxClear", "StopTxClear"}

\* ---- C11: StopRx/StopTx invokes the implementation's stop routine first and
\* clears Busy afterwards, unconditionally: Busy is true when the routine is
\* invoked and stays true until the clear, a Start made in between is turned
\* away, and Busy is false when Stop returns.
C11_StopOrder ==
    /\ [](\A c \in Callers : pc[c] \in StopPcs => Busy)
    /\ [][\A c \in Callers :
            /\ (pc[c] = "idle" /\ pc'[c] \in StopPcs) => (Busy /\ Busy')
            /\ (pc[c] \in StopPcs /\ pc'[c] = "idle") => ~Busy'
            /\ (StartCalled(c) /\ \E d \in Callers : pc[d] \in StopPcs)
               => lastCall'[c].ret = "false"]_vars

\* a caller is inside StopTx, its stop routine invoked, the flag still set,
\* and another caller's Start has been turned away
C11_Witness ==
    \E c, d \in Callers :
        /\ c # d
        /\ pc[d] = "StopTxClear"
        /\ Busy
        /\ Rejected(c)

\* ---- C12: Rx and Tx brackets share the one Busy flag: an Rx and a Tx
\* bracket are never open together, a StartTx made while an Rx bracket is
\* open returns false and so does a StartRx while a Tx bracket is open; the
\* Tx triad acquires on StartTx, releases on a failed StartTx and on StopTx.
C12_SharedFlag ==
    /\ [](/\ \A c, d \in Callers : ~(holds[c] = "Rx" /\ holds[d] = "Tx")
          /\ \A c \in Callers :
               /\ holds[c] = "Tx" => Busy
               /\ (lastCall[c].op = "StartTx" /\ lastCall[c].impl = "fail"
                   /\ lastCall[c].ret = "false"
                   /\ OpenBrackets = {} /\ ~StartInProgress) => ~Busy)
    /\ [][\A c \in Callers :
            /\ (StartCalled(c) /\ lastCall'[c].op = "StartTx"
                /\ \E d \in Callers : holds[d] = "Rx")
               => (lastCall'[c].ret = "false" /\ pc'[c] = "idle")
            /\ (StartCalled(c) /\ lastCall'[c].op = "StartRx"
                /\ \E d \in Callers : holds[d] = "Tx")
               => (lastCall'[c].ret = "false" /\ pc'[c] = "idle")
            /\ (pc[c] = "StopTxClear" /\ pc'[c] = "idle") => ~Busy']_vars

\* an Rx bracket is open and a StartTx has been turned away
C12_Witness ==
    \E c, d \in Callers :
        /\ c # d
        /\ holds[c] = "Rx"
        /\ Rejected(d)
        /\ lastCall[d].op = "StartTx"

\* ---- C16: Start never blocks: a call that is inside StartRx/StartTx has
\* acquired the flag (none waits for it), a Start made while Busy is set
\* returns false in that very step, and every Start that is in progress
\* returns true or false, however long another caller keeps its bracket.
C16_StartNeverBlocks ==
    /\ [](\A c \in Callers : pc[c] \in StartPcs => lastCall[c].pre = FALSE)
    /\ [][\A c \in Callers :
            (StartCalled(c) /\ Busy)
            => (pc'[c] = "idle" /\ lastCall'[c].ret = "false")]_vars
    /\ \A c \in Callers :
          (pc[c] \in StartPcs)
          ~> (pc[c] = "idle" /\ lastCall[c].ret \in {"true", "false"})

\* a StartRx has returned false while another caller keeps its Tx bracket
C16_Witness ==
    \E c, d \in Callers :
        /\ c # d
        /\ holds[d] = "Tx"
        /\ pc[d] = "idle"
        /\ Rejected(c)
        /\ lastCall[c].op = "StartRx"
        /\ pc[c] = "idle"

\* ---- C17: Disable decrements the count without a lower bound and invokes
\* the implementation's Disable routine whenever the new count is < 1: after
\* m Disable calls from count 0 the count is -m and the routine ran m times.
IsDm(h, m) ==
    /\ Len(h) = m
    /\ \A i \in 1..m : h[i] = "Disable"

C17_DisableUnbounded ==
    /\ [](\A m \in 1..MaxPowerCalls :
            (Quiescent /\ IsDm(hist, m))
            => (EnCnt = -m /\ nImplDisable = m))
    /\ [][hist' = Append(hist, "Disable")
          => /\ EnCnt' = EnCnt - 1
             /\ (EnCnt' < 1) <=>
                  (\E c \in Callers :
                      pc[c] = "idle" /\ pc'[c] = "DisableImpl")]_vars

\* two Disable calls on a handle that was never enabled
C17_Witness ==
    /\ Quiescent
    /\ IsDm(hist, 2)
    /\ EnCnt = -2
    /\ nImplDisable = 2

\* the composite of caller c has returned
Returned(c) == comp[c].op # "none" /\ ~comp[c].active

StartFailed(c) == comp[c].start \in {"rejected", "implfail"}

\* ---- C13: a DeviceIntrfRx/DeviceIntrfTx whose Start phase failed (flag
\* already set, or implementation start failed) returns 0 and has invoked
\* neither the implementation's data routine nor its stop routine.
C13_FailedStartSkips ==
    \A c \in Callers :
        (comp[c].op \in {"Rx", "Tx"} /\ StartFailed(c))
        => /\ Returned(c)
           /\ comp[c].ret = 0
           /\ \A i \in 1..Len(comp[c].log) :
                 comp[c].log[i] \in {"StartRx", "StartTx"}

\* one composite was turned away, another failed in the implementation
C13_Witness ==
    \E c, d \in Callers :
        /\ c # d
        /\ comp[c].op = "Rx"
        /\ comp[c].start = "rejected"
        /\ Returned(c)
        /\ comp[d].op = "Tx"
        /\ comp[d].start = "implfail"
        /\ comp[d].log = <<"StartTx">>
        /\ Returned(d)

\* ---- C14: a DeviceIntrfRx/DeviceIntrfTx whose Start succeeded has invoked
\* the implementation's Start, Data and Stop routines in this order, each
\* once, returns the count the data routine returned, and leaves Busy false
\* in the step in which it returns.
C14_CompositeSequence ==
    /\ [](\A c \in Callers :
            (comp[c].op \in {"Rx", "Tx"} /\ Returned(c) /\ comp[c].start = "ok")
            => /\ comp[c].log = <<StartOpOf(comp[c].op),
                                  DataPhases(comp[c].op)[1],
                                  StopOpOf(comp[c].op)>>
               /\ comp[c].ret = comp[c].cnt)
    /\ [][\A c \in Callers :
            (comp[c].active /\ ~comp'[c].active /\ comp'[c].start = "ok")
            => ~Busy']_vars

\* a DeviceIntrfRx has returned a short count, 1 of MaxXfer bytes
C14_Witness ==
    \E c \in Callers :
        /\ comp[c].op = "Rx"
        /\ Returned(c)
        /\ comp[c].start = "ok"
        /\ comp[c].log = <<"StartRx", "RxData", "StopRx">>
        /\ comp[c].ret = 1
        /\ ~Busy

\* ---- C15: a DeviceIntrfWrite whose Start succeeded invokes exactly two
\* transfer phases, the address/command phase first and the data phase
\* second; one whose Start failed invokes none and returns 0.
TransferPhases(log) ==
    SelectSeq(log, LAMBDA e : e \in {"TxAdCmd", "TxData", "RxData"})

C15_WritePhases ==
    \A c \in Callers :
        comp[c].op = "Write" =>
            /\ (Returned(c) /\ comp[c].start = "ok")
               => /\ TransferPhases(comp[c].log) = <<"TxAdCmd", "TxData">>
                  /\ comp[c].log = <<"StartTx", "TxAdCmd", "TxData", "StopTx">>
            /\ StartFailed(c)
               => /\ Returned(c)
                  /\ TransferPhases(comp[c].log) = <<>>
                  /\ comp[c].ret = 0

\* one DeviceIntrfWrite went through, another was turned away
C15_Witness ==
    \E c, d \in Callers :
        /\ c # d
        /\ comp[c].op = "Write"
        /\ Returned(c)
        /\ comp[c].start = "ok"
        /\ comp[c].ret = MaxXfer
        /\ comp[d].op = "Write"
        /\ Returned(d)
        /\ comp[d].start = "rejected"

\* ---- C18: DeviceIntrfRxData/TxData call the implementation's data routine
\* once and return its count as it is, short or not and whatever MaxRetry
\* is; the call changes neither Busy nor the enable count nor any bracket,
\* whether a bracket is open or not.
C18_DataDelegates ==
    /\ [](lastData.op # "none"
          => /\ lastData.calls = 1
             /\ lastData.ret = lastData.implRet)
    /\ [][lastData' # lastData
          => /\ Busy' = Busy
             /\ EnCnt' = EnCnt
             /\ holds' = holds
             /\ pc' = pc]_vars

\* with no bracket open and MaxRetry > 0, a TxData returned nothing sent
C18_Witness ==
    /\ lastData.op = "TxData"
    /\ ~lastData.busy
    /\ MaxRetry > 0
    /\ lastData.implRet = 0
    /\ lastData.ret = 0
    /\ lastData.calls = 1

\* ---- C19: DeviceIntrfReset invokes the implementation's Reset routine once
\* per call when the slot is filled and never when it is NULL; it runs
\* whatever Busy is and changes neither Busy nor the enable count nor any
\* bracket.
C19_ResetFrame ==
    /\ [](nImplReset = (IF hasReset THEN nResetCalls ELSE 0))
    /\ [][nResetCalls' # nResetCalls
          => /\ nResetCalls' = nResetCalls + 1
             /\ Busy' = Busy
             /\ EnCnt' = EnCnt
             /\ holds' = holds
             /\ pc' = pc]_vars

\* a Reset was made while Busy was set, and the bracket is still open
C19_Witness ==
    /\ nResetCalls >= 1
    /\ nImplReset = nResetCalls
    /\ resetSawBusy
    /\ Busy
    /\ \E c \in Callers : holds[c] # "none"

\* ---- C20: after DeviceIntrfSetRate returned R, every DeviceIntrfGetRate
\* made before the next SetRate returns exactly R; neither call changes Busy,
\* the enable count or any bracket.
C20_RateRoundTrip ==
    /\ []((lastSet # NoSet /\ lastGetRet.made) => lastGetRet.ret = lastSet.ret)
    /\ [][(lastSet' # lastSet \/ lastGetRet' # lastGetRet)
          => /\ Busy' = Busy
             /\ EnCnt' = EnCnt
             /\ holds' = holds
             /\ pc' = pc]_vars

\* the largest rate was asked for, a lower one was set and read back
C20_Witness ==
    /\ lastSet.req = MaxRate
    /\ lastSet.ret < MaxRate
    /\ lastGetRet.made
    /\ lastGetRet.ret = lastSet.ret

\* ---- C21: Stop checks no ownership. A StopRx/StopTx called by a caller
\* that owns no bracket clears Busy like any other Stop, also while another
\* caller's bracket is open; a Start that then finds Busy clear is let in, so
\* two brackets can be open at once. Two brackets are open together only
\* after some caller has called Stop without owning a bracket.
C21_UnownedStop ==
    /\ [][\A c \in Callers :
            (pc[c] \in {"StopRxClear", "StopTxClear"} /\ pc'[c] = "idle")
            => ~Busy']_vars
    /\ [][\A c \in Callers :
            (/\ pc[c] = "idle"
             /\ lastCall'[c] # lastCall[c]
             /\ lastCall'[c].op \in StartOps
             /\ ~Busy)
            => /\ pc'[c] \in StartPcs
               /\ Busy']_vars
    /\ [](Cardinality(OpenBrackets) >= 2 => unowned)

\* a caller whose Start had been rejected called Stop, and now two callers
\* own a bracket each
C21_Witness ==
    /\ unowned
    /\ Cardinality(OpenBrackets) >= 2
    /\ Busy

\* ---- C22: the implementation's Enable routine is invoked only by the Enable
\* call that brings the count to exactly 1. After m surplus Disable calls
\* (count -m) the next m Enable calls raise the count to 0 without invoking
\* it; the Enable call after those, the (m+1)-th, invokes it once.
IsDmEk(h, m, k) ==
    /\ Len(h) = m + k
    /\ \A i \in 1..m : h[i] = "Disable"
    /\ \A i \in (m + 1)..(m + k) : h[i] = "Enable"

C22_EnableAfterSurplus ==
    /\ [](\A m \in 1..MaxPowerCalls : \A k \in 0..(MaxPowerCalls - m) :
            (Quiescent /\ IsDmEk(hist, m, k))
            => /\ EnCnt = k - m
               /\ nImplDisable = m
               /\ nImplEnable = (IF k >= m + 1 THEN 1 ELSE 0))
    /\ [][hist' = Append(hist, "Enable")
          => /\ EnCnt' = EnCnt + 1
             /\ (EnCnt' = 1) <=>
                  (\E c \in Callers :
                      pc[c] = "idle" /\ pc'[c] = "EnableImpl")]_vars

\* one surplus Disable, then two Enable calls: only the second powered up
C22_Witness ==
    /\ Quiescent
    /\ IsDmEk(hist, 1, 2)
    /\ EnCnt = 1
    /\ nImplDisable = 1
    /\ nImplEnable = 1
    /\ hwOn

\* ---- C23: the power gate and the transaction gate are independent. No
\* Enable/Disable step changes Busy or a bracket, no Start/Stop step changes
\* the enable count or the power state; whether a Start is let in depends on
\* Busy alone (it is let in with the count at 0 or below), and whether a
\* Disable powers down depends on the count alone (it does with a bracket
\* open).
PowerStep ==
    \/ EnCnt' # EnCnt
    \/ hist' # hist
    \/ hwOn' # hwOn
    \/ nImplEnable' # nImplEnable
    \/ nImplDisable' # nImplDisable

BusStep ==
    \/ Busy' # Busy
    \/ holds' # holds
    \/ lastCall' # lastCall

C23_GatesIndependent ==
    /\ [][PowerStep
          => /\ Busy' = Busy
             /\ holds' = holds
             /\ lastCall' = lastCall]_vars
    /\ [][BusStep
          => /\ EnCnt' = EnCnt
             /\ hwOn' = hwOn
             /\ hist' = hist
             /\ nImplEnable' = nImplEnable
             /\ nImplDisable' = nImplDisable]_vars
    /\ [][\A c \in Callers :
            (/\ pc[c] = "idle"
             /\ lastCall'[c] # lastCall[c]
             /\ lastCall'[c].op \in StartOps)
            => (pc'[c] \in StartPcs <=> ~Busy)]_vars
    /\ [][hist' = Append(hist, "Disable")
          => ((EnCnt' < 1) <=>
                (\E c \in Callers :
                    pc[c] = "idle" /\ pc'[c] = "DisableImpl"))]_vars

\* a bracket is open on a handle whose count is back at 0 and whose hardware
\* the implementation's Disable routine has powered down
C23_Witness ==
    /\ \E c \in Callers : holds[c] # "none"
    /\ Busy
    /\ Quiescent
    /\ hist = <<"Enable", "Disable">>
    /\ EnCnt = 0
    /\ nImplDisable = 1
    /\ ~hwOn

\* ---- C24: no permanent lock-out. When every caller whose Start returned
\* true goes on to call the matching Stop, and nobody else calls Stop, Busy
\* is never set for good: whenever it is set it is cleared later, by the
\* owner's Stop or by the Start whose implementation routine failed.
C24_NoLockOut == Busy ~> ~Busy

\* Busy is set on behalf of a Start whose implementation routine has failed
C24_Witness ==
    /\ Busy
    /\ \E c \in Callers :
          /\ pc[c] \in {"StartRxClear", "StartTxClear"}
          /\ lastCall[c].impl = "fail"

FlagOwner(c) == pc[c] \in StartPcs \/ holds[c] # "none"

TypeOK ==
    /\ Busy \in BOOLEAN
    /\ EnCnt \in -MaxPowerCalls..MaxPowerCalls
    /\ hwOn \in BOOLEAN
    /\ surplus \in BOOLEAN
    /\ \A c \in Callers : holds[c] \in {"none", "Rx", "Tx"}
    /\ \A c \in Callers : using[c] \in 0..MaxPowerCalls
    /\ Len(hist) <= MaxPowerCalls
    /\ MaxRetry \in RetryValues
    /\ hasReset \in BOOLEAN
    /\ \A c \in Callers : comp[c].cnt \in 0..MaxXfer /\ comp[c].ret \in 0..MaxXfer
    /\ lastData.ret \in 0..MaxXfer
    /\ nResetCalls \in 0..MaxResets
    /\ nImplReset \in 0..MaxResets
    /\ resetSawBusy \in BOOLEAN
    /\ rate \in AchievableRates
    /\ lastSet = NoSet \/ (lastSet.req \in 1..MaxRate /\ lastSet.ret \in AchievableRates)
    /\ lastGetRet = NoGet \/ lastGetRet.ret \in AchievableRates
    /\ unowned \in BOOLEAN
====
